---- MODULE Spec2Model ----
(***************************************************************************)
(* Diffuse-particle (spray / foam / bubble) engine of VisualSPHysics:      *)
(* DiffuseCalculator::runSimulation and its helpers.                       *)
(*                                                                         *)
(* Number representation.  The program computes in double precision.       *)
(*   - lengths, velocities, masses, time steps and neighbour counts are    *)
(*     integers in the model's units (length unit 1 cm, so g = 981);       *)
(*   - dimensionless ratios, unit-vector components, kernel values, the    *)
(*     scratch fields Ita / colorField / waveCrest / energy and the random *)
(*     samples are fixed-point numbers with ONE standing for 1.0;          *)
(*   - NaN is a distinguished value; every division whose divisor can be   *)
(*     zero goes through FDiv, and fmin treats NaN as the C library does.  *)
(***************************************************************************)
EXTENDS Integers, Sequences, FiniteSets, TLC

\* ------------------------------------------------------------------ bounds
\* number of frames of a run: nend = nstart + NFrames - 1
NFrames == 4
\* phi is examined for inputs and clamp windows in -PhiRange .. PhiRange
PhiRange == 5

\* --------------------------------------------------------------- constants
ONE == 1000
NaN == -1000000000
G == 981
SURFACE == 750
PiNum == 355
PiDen == 113

\* ------------------------------------------------------- double arithmetic
IsNaN(a) == a = NaN

FAdd(a, b) == IF IsNaN(a) \/ IsNaN(b) THEN NaN ELSE a + b

FSub(a, b) == IF IsNaN(a) \/ IsNaN(b) THEN NaN ELSE a - b

\* product of an integer or fixed-point number with a fixed-point number
FMul(a, b) == IF IsNaN(a) \/ IsNaN(b) THEN NaN ELSE (a * b) \div ONE

\* plain product (one factor is a count or an integer quantity)
IMul(a, b) == IF IsNaN(a) \/ IsNaN(b) THEN NaN ELSE a * b

\* quotient as a fixed-point ratio; every zero divisor in the program meets
\* a zero dividend (0/0), so a zero divisor yields NaN
FDiv(a, b) == IF IsNaN(a) \/ IsNaN(b) \/ b = 0 THEN NaN ELSE (a * ONE) \div b

\* comparisons with a NaN operand are false
FLt(a, b) == ~IsNaN(a) /\ ~IsNaN(b) /\ a < b

FGeq(a, b) == ~IsNaN(a) /\ ~IsNaN(b) /\ a >= b

\* fmin of <cmath>: a NaN operand is treated as missing data
Fmin(a, b) == IF IsNaN(a) THEN b ELSE IF IsNaN(b) THEN a ELSE IF a < b THEN a ELSE b

RECURSIVE SqrtBits(_, _, _)
SqrtBits(n, r, b) ==
    IF b = 0 THEN r
    ELSE IF (r + b) * (r + b) <= n THEN SqrtBits(n, r + b, b \div 2)
         ELSE SqrtBits(n, r, b \div 2)

\* integer square root (floor), n < 2^30
ISqrt(n) == SqrtBits(n, 0, 16384)

\* sqrt of a fixed-point number, as a fixed-point number
FSqrt(u) == ISqrt(u * ONE)

\* cos and sin of 2*pi*u for a fixed-point u that is a multiple of 1/4
CosTurn(u) == CASE u = 0 -> ONE [] u = ONE \div 2 -> -ONE [] OTHER -> 0

SinTurn(u) == CASE u = ONE \div 4 -> ONE [] u = 3 * (ONE \div 4) -> -ONE [] OTHER -> 0

\* ------------------------------------------------------ vector primitives
Vec(x, y, z) == <<x, y, z>>

substract(a, b) == <<a[1] - b[1], a[2] - b[2], a[3] - b[3]>>

Dot(a, b) == a[1] * b[1] + a[2] * b[2] + a[3] * b[3]

\* |v| of an integer vector, as a fixed-point number
magnitude(v) == ISqrt(Dot(v, v) * ONE * ONE)

\* |v| <= r, decided exactly
WithinRadius(v, r) == Dot(v, v) <= r * r

\* unit vector (fixed-point components) of an integer vector; NaN for zero
normalize(v) ==
    LET m == magnitude(v)
    IN  <<FDiv(v[1] * ONE, m), FDiv(v[2] * ONE, m), FDiv(v[3] * ONE, m)>>

HasNaN(v) == IsNaN(v[1]) \/ IsNaN(v[2]) \/ IsNaN(v[3])

\* unit vector of a vector with fixed-point components
normalizeF(v) ==
    IF HasNaN(v) THEN <<NaN, NaN, NaN>>
    ELSE LET m == ISqrt(Dot(v, v))
         IN  <<FDiv(v[1], m), FDiv(v[2], m), FDiv(v[3], m)>>

\* dot product of two vectors with fixed-point components
DotF(a, b) ==
    IF HasNaN(a) \/ HasNaN(b) THEN NaN
    ELSE (a[1] * b[1] + a[2] * b[2] + a[3] * b[3]) \div ONE

RECURSIVE FSum(_)
FSum(s) == IF s = <<>> THEN 0 ELSE FAdd(Head(s), FSum(Tail(s)))

VSum(s) == <<FSum([n \in DOMAIN s |-> s[n][1]]),
             FSum([n \in DOMAIN s |-> s[n][2]]),
             FSum([n \in DOMAIN s |-> s[n][3]])>>

\* dot product of an integer vector with a fixed-point unit vector
dotProduct(a, n) ==
    IF IsNaN(n[1]) \/ IsNaN(n[2]) \/ IsNaN(n[3]) \/ IsNaN(a[1]) \/ IsNaN(a[2]) \/ IsNaN(a[3])
    THEN NaN
    ELSE a[1] * n[1] + a[2] * n[2] + a[3] * n[3]

\* --------------------------------------------------------------- kernels
\* the clamp without the lower bound applied to the input
phiNoLower(I, tmin, tmax) == FDiv(FSub(Fmin(I, tmax), tmin), FSub(tmax, tmin))

\* Clamping function
phi(I, tmin, tmax) == FDiv(FSub(Fmin(I, tmax), Fmin(I, tmin)), FSub(tmax, tmin))

\* linear spike kernel of a displacement, fixed-point
W(xij, h) ==
    IF WithinRadius(xij, h) THEN ONE - (magnitude(xij) \div h) ELSE 0

\* normalisation 21 / (16 pi h^3) of the Wendland kernel applied to s
WendlandAd(s, h) == (s * 21 * PiDen) \div (16 * PiNum * h * h * h)

\* Wendland kernel of a displacement, fixed-point
Wwendland(xij, h) ==
    LET q  == magnitude(xij) \div h
        e1 == ONE - (q \div 2)
        e2 == (e1 * e1) \div ONE
        e4 == (e2 * e2) \div ONE
    IN  IF WithinRadius(xij, 2 * h)
        THEN WendlandAd((e4 * (2 * q + ONE)) \div ONE, h)
        ELSE 0

solveEq(px, py, pz, vx, vy, vz, x, y) ==
    FAdd(FDiv((0 - (x - px)) * vx - (y - py) * vy, vz), pz * ONE)

\* ------------------------------------------------------------- parameters
\* SimulationParams of one run (diffuseparticles_run fills the record).
BaseParams ==
    [nstart |-> 1, nend |-> NFrames,
     timesteps |-> <<[nstep |-> 0, tout |-> 1]>>,
     h |-> 2, mass |-> 2,
     MINX |-> -3, MAXX |-> 3, MINY |-> -3, MAXY |-> 3,
     MINZ |-> -6000, MAXZ |-> 6000,
     MINTA |-> 0, MAXTA |-> 2 * ONE,
     MINWC |-> 0, MAXWC |-> ONE,
     MINK |-> 0, MAXK |-> 16 * ONE,
     KTA |-> 1, KWC |-> 1,
     SPRAY |-> 1, BUBBLES |-> 3, LIFEFIME |-> 1,
     KB |-> ONE \div 2, KD |-> ONE \div 2]

\* the run of BaseParams started at frame 3 of a schedule whose entries
\* 1 and 2 both lie before the first frame
LateParams ==
    [BaseParams EXCEPT !.nstart = 3, !.nend = NFrames + 2,
                       !.timesteps = <<[nstep |-> 0, tout |-> 1],
                                       [nstep |-> 1, tout |-> 2],
                                       [nstep |-> 2, tout |-> 1]>>]

ParamSets == {BaseParams, LateParams}

\* BaseParams with the spray threshold at zero: a particle without fluid
\* neighbours is foam, and its smoothed velocity is 0 / 0
NoSprayParams == [BaseParams EXCEPT !.SPRAY = 0]

\* BaseParams with an empty wave-crest clamp window (MAXWC = MINWC)
BadWindowParams == [BaseParams EXCEPT !.MINWC = 0, !.MAXWC = 0]

\* BaseParams with an energy window that starts below zero, so a particle at
\* rest has a positive clamped energy, and a larger trapped-air coefficient
RestEnergyParams == [BaseParams EXCEPT !.MINK = -16 * ONE, !.KTA = 2]

\* ------------------------------------------------- fluid snapshots (input)
Particle(i, p, v) == [id |-> i, pos |-> p, vel |-> v, rhop |-> 1]

\* the snapshot files a data directory may hold for a frame
Snapshots ==
    [empty   |-> <<>>,
     collide |-> <<Particle(0, Vec(1, 0, 0), Vec(0, 0, 4)),
                   Particle(1, Vec(2, 0, 0), Vec(0, 0, -4))>>,
     splash  |-> <<Particle(0, Vec(1, 0, 0), Vec(0, 0, 4)),
                   Particle(1, Vec(1, 1, 0), Vec(0, 0, 0))>>,
     rest1   |-> <<Particle(0, Vec(1, 0, 0), Vec(0, 0, 0))>>,
     rest2   |-> <<Particle(0, Vec(1, 0, 0), Vec(0, 0, 0)),
                   Particle(1, Vec(2, 0, 0), Vec(0, 0, 0))>>,
     rest3   |-> <<Particle(0, Vec(1, 0, 0), Vec(0, 0, 0)),
                   Particle(1, Vec(1, 1, 0), Vec(0, 0, 0)),
                   Particle(2, Vec(2, 0, 0), Vec(0, 0, 0))>>,
     rest4   |-> <<Particle(0, Vec(1, 0, 0), Vec(0, 0, 0)),
                   Particle(1, Vec(1, 1, 0), Vec(0, 0, 0)),
                   Particle(2, Vec(2, 0, 0), Vec(0, 0, 0)),
                   Particle(3, Vec(1, 0, 1), Vec(0, 0, 0))>>]

SnapshotNames == DOMAIN Snapshots

\* contents of the data directories examined: the snapshot of the first
\* frames of the run, the last entry standing for every later frame
\* ("missing": there is no readable file for the frame)
Patterns ==
    {<<"empty">>, <<"missing">>,
     <<"splash", "missing">>,
     <<"splash", "empty">>,
     <<"splash", "rest1">>,
     <<"splash", "rest2">>,
     <<"splash", "rest3">>,
     <<"splash", "rest4">>,
     <<"splash", "splash", "rest2">>,
     <<"splash", "rest2", "rest4", "rest1">>,
     <<"collide", "empty">>,
     <<"collide", "rest2">>,
     <<"empty", "collide", "collide", "missing">>}

\* the runs examined: parameters and data directory pattern
Runs ==
    (ParamSets \X Patterns)
        \cup {<<NoSprayParams, <<"splash", "empty">>>>,
              <<NoSprayParams, <<"splash", "rest1", "empty">>>>,
              <<BadWindowParams, <<"rest1", "empty">>>>,
              <<RestEnergyParams, <<"rest2", "empty">>>>}

\* the directory of a pattern for the frames nstart .. nend
DataDir(p, pat) ==
    [n \in p.nstart .. p.nend |->
        IF n - p.nstart + 1 <= Len(pat) THEN pat[n - p.nstart + 1] ELSE pat[Len(pat)]]

\* triples (u1, u2, u3) the generator may deliver for one newborn
RandTriples == {<<0, 0, 0>>, <<ONE \div 2, ONE \div 4, 0>>}

\* ------------------------------------------------- bucket container (input)
\* cell of a point in the uniform grid of cell size h
CellOf(p, h) == <<p[1] \div h, p[2] \div h, p[3] \div h>>

Adjacent(c, d) == \A k \in 1..3 : c[k] - d[k] \in {-1, 0, 1}

\* keys of the non-empty cells, in grid order
RECURSIVE KeySeq(_)
KeySeq(keys) ==
    IF keys = {} THEN <<>>
    ELSE LET kmin == CHOOSE c \in keys : \A d \in keys :
                        \/ c[1] < d[1]
                        \/ c[1] = d[1] /\ c[2] < d[2]
                        \/ c[1] = d[1] /\ c[2] = d[2] /\ c[3] <= d[3]
         IN  <<kmin>> \o KeySeq(keys \ {kmin})

\* particles of a list lying in a set of cells, in list order
InCells(f, h, cells) == SelectSeq(f, LAMBDA pj : CellOf(pj.pos, h) \in cells)

getNoEmptyBuckets(f, h) ==
    LET keys == KeySeq({CellOf(f[n].pos, h) : n \in DOMAIN f})
    IN  [b \in DOMAIN keys |->
            [first |-> keys[b], second |-> InCells(f, h, {keys[b]})]]

\* particles of the 27 cells around a cell key
getSurroundingBuckets(f, h, key) ==
    InCells(f, h, {c \in {CellOf(f[n].pos, h) : n \in DOMAIN f} : Adjacent(c, key)})

\* ------------------------------------------------------------------ state
VARIABLES
    sp,             \* SimulationParams of the run
    files,          \* snapshot file of each frame in sp.dataPath
    pc,             \* position of runSimulation
    nstep,          \* frame counter of the loop
    tstep_idx,      \* index into sp.timesteps
    timeout,        \* TimeOut used by the frame
    fluid,          \* particles of the loaded snapshot (bucket container f)
    Ita, colorField, waveCrest, energy, gradient, ndiffuse,
    npdiffuse,
    tempRand,
    diffusePosit, diffuseVel, diffuseIds, diffuseTTL, diffuseDensity,
    diffuseSrc,     \* fluid particle that filled each newborn slot (not program state)
    diffuseWrites,  \* number of writes of each newborn slot (not program state)
    idif,           \* shared output index of the spawn loop
    difId,          \* id counter of the run
    task,           \* per bucket iteration of the parallel spawn loop
    ppPosit, ppVel, ppIds, ppTTL, ppDensity,
    tempPosit, tempVel, tempIds, tempTTL, tempDensity,
    di,             \* index of the delete loop
    deleted,        \* the number reported as "Deleted"
    emitted,        \* frames whose snapshot files were written
    outTxt, outVtk, \* type column of the last text / VTK diffuse file
    ppHist,         \* history of each pool particle (not program state)
    passDone,       \* iterations of the running parallel field pass that ended
    passWrites,     \* scratch slots written by each of them (not program state)
    passReads       \* scratch slots read by each of them (not program state)

scratch  == <<Ita, colorField, waveCrest, energy, gradient, ndiffuse>>
newborn  == <<diffusePosit, diffuseVel, diffuseIds, diffuseTTL, diffuseDensity,
              diffuseSrc, diffuseWrites>>
pool     == <<ppPosit, ppVel, ppIds, ppTTL, ppDensity>>
temps    == <<tempPosit, tempVel, tempIds, tempTTL, tempDensity>>
output   == <<emitted, outTxt, outVtk>>
driver   == <<sp, files, nstep, tstep_idx, timeout>>
spawnv   == <<npdiffuse, tempRand, idif, task>>
passv    == <<passDone, passWrites, passReads>>

vars == <<driver, pc, fluid, scratch, newborn, pool, temps, spawnv, difId,
          di, deleted, output, ppHist, passv>>

npoints == Len(fluid)
Ids == 0 .. npoints - 1

\* the particle of the loaded snapshot with a given id
ById(i) == fluid[i + 1]

InitRun(p, dir) ==
    /\ sp = p
    /\ files = dir
    /\ pc = "loop"
    /\ nstep = p.nstart
    /\ tstep_idx = 0
    /\ timeout = [nstep |-> 0, tout |-> 0]
    /\ fluid = <<>>
    /\ Ita = <<>> /\ colorField = <<>> /\ waveCrest = <<>>
    /\ energy = <<>> /\ gradient = <<>> /\ ndiffuse = <<>>
    /\ npdiffuse = 0
    /\ tempRand = <<>>
    /\ diffusePosit = <<>> /\ diffuseVel = <<>> /\ diffuseIds = <<>>
    /\ diffuseTTL = <<>> /\ diffuseDensity = <<>> /\ diffuseSrc = <<>>
    /\ diffuseWrites = <<>>
    /\ idif = 0
    /\ difId = 0
    /\ task = <<>>
    /\ ppPosit = <<>> /\ ppVel = <<>> /\ ppIds = <<>>
    /\ ppTTL = <<>> /\ ppDensity = <<>>
    /\ tempPosit = <<>> /\ tempVel = <<>> /\ tempIds = <<>>
    /\ tempTTL = <<>> /\ tempDensity = <<>>
    /\ di = 0
    /\ deleted = 0
    /\ emitted = <<>>
    /\ outTxt = <<>> /\ outVtk = <<>>
    /\ ppHist = <<>>
    /\ passDone = {} /\ passWrites = {} /\ passReads = {}

Init == \E r \in Runs : InitRun(r[1], DataDir(r[1], r[2]))

\* ------------------------------------------------------------ driver loop
\* schedule index used by frame n when the previous frame used index k
NextTstepIdx(k, n, ts) ==
    IF k + 1 < Len(ts) /\ n > ts[k + 2].nstep THEN k + 1 ELSE k

\* loop head of a frame up to loadFile
FrameHead ==
    /\ pc = "loop"
    /\ nstep <= sp.nend
    /\ tstep_idx' = NextTstepIdx(tstep_idx, nstep, sp.timesteps)
    /\ timeout' = sp.timesteps[tstep_idx' + 1]

\* loadFile succeeds: the frame's scratch vectors are created
LoadFrame ==
    /\ FrameHead
    /\ files[nstep] # "missing"
    /\ fluid' = Snapshots[files[nstep]]
    /\ Ita' = [i \in 0 .. Len(fluid') - 1 |-> 0]
    /\ colorField' = [i \in 0 .. Len(fluid') - 1 |-> 0]
    /\ waveCrest' = [i \in 0 .. Len(fluid') - 1 |-> 0]
    /\ energy' = [i \in 0 .. Len(fluid') - 1 |-> 0]
    /\ ndiffuse' = [i \in 0 .. Len(fluid') - 1 |-> 0]
    /\ gradient' = [i \in 0 .. Len(fluid') - 1 |-> <<0, 0, 0>>]
    /\ pc' = "pass1"
    /\ UNCHANGED <<sp, files, nstep, newborn, pool, temps, spawnv, difId, di,
                   deleted, output, ppHist, passv>>

\* a failed load that skips the frame instead of ending the loop
LoadFailContinue ==
    /\ FrameHead
    /\ files[nstep] = "missing"
    /\ nstep' = nstep + 1
    /\ UNCHANGED <<sp, files, pc, fluid, scratch, newborn, pool, temps, spawnv,
                   difId, di, deleted, output, ppHist, passv>>

\* loadFile fails: break
LoadFail ==
    /\ FrameHead
    /\ files[nstep] = "missing"
    /\ pc' = "done"
    /\ UNCHANGED <<sp, files, nstep, fluid, scratch, newborn, pool, temps, spawnv,
                   difId, di, deleted, output, ppHist, passv>>

\* nstep > sp.nend: the loop ends
LoopExit ==
    /\ pc = "loop"
    /\ nstep > sp.nend
    /\ pc' = "done"
    /\ UNCHANGED <<driver, fluid, scratch, newborn, pool, temps, spawnv, difId,
                   di, deleted, output, ppHist, passv>>

\* ------------------------------------------------------------ field passes
\* the 27-cell neighbourhood of the bucket of particle pi
Neighbours(pi) == getSurroundingBuckets(fluid, sp.h, CellOf(pi.pos, sp.h))

\* contribution of neighbour pj to Ita[pi.id]
ItaTerm(pi, pj) ==
    LET spv == substract(pi.pos, pj.pos)
        mp  == magnitude(spv)
        q   == mp \div sp.h
        sv  == substract(pi.vel, pj.vel)
        mv  == magnitude(sv)
        dv  == <<FDiv(sv[1] * ONE, mv), FDiv(sv[2] * ONE, mv), FDiv(sv[3] * ONE, mv)>>
        dp  == <<FDiv(spv[1] * ONE, mp), FDiv(spv[2] * ONE, mp), FDiv(spv[3] * ONE, mp)>>
        e   == FSub(ONE, DotF(dv, dp))
        w   == ONE - q
    IN  IF pi.id # pj.id /\ WithinRadius(spv, sp.h)
        THEN FMul(FMul(mv, e), w)
        ELSE 0

\* contribution of neighbour pj to colorField[pi.id]
ColorTerm(pi, pj) ==
    IF pi.id # pj.id
    THEN FMul(FDiv(sp.mass, pj.rhop), Wwendland(substract(pi.pos, pj.pos), sp.h))
    ELSE 0

\* the buckets the three parallel loops iterate over
Buckets == getNoEmptyBuckets(fluid, sp.h)

\* the pairs (pi, pj) one iteration visits: pi in its bucket, pj in the
\* surrounding buckets
Pairs(b) ==
    LET bucket == Buckets[b].second
        sb     == getSurroundingBuckets(fluid, sp.h, Buckets[b].first)
    IN  [m \in 1 .. Len(bucket) * Len(sb) |->
            <<bucket[((m - 1) \div Len(sb)) + 1], sb[((m - 1) % Len(sb)) + 1]>>]

\* a write through the neighbour's id instead of the particle's own
SlotOfNeighbour(pi, pj) == pj.id

\* long i = pi.id: the scratch slot an iteration accumulates into for (pi, pj)
Slot(pi, pj) == pi.id

\* an access of iteration b to a slot of a scratch vector
Access(a, s, b) == [arr |-> a, slot |-> s, it |-> b]

\* the accesses to Ita and colorField of iteration b of the first pass
ItaAccesses(b) ==
    {Access("Ita", Slot(Pairs(b)[m][1], Pairs(b)[m][2]), b) :
        m \in {n \in DOMAIN Pairs(b) :
                  /\ Pairs(b)[n][1].id # Pairs(b)[n][2].id
                  /\ WithinRadius(substract(Pairs(b)[n][1].pos, Pairs(b)[n][2].pos), sp.h)}}

ColorAccesses(b) ==
    {Access("colorField", Slot(Pairs(b)[m][1], Pairs(b)[m][2]), b) :
        m \in {n \in DOMAIN Pairs(b) :
                  /\ Pairs(b)[n][1].id # Pairs(b)[n][2].id
                  /\ WithinRadius(substract(Pairs(b)[n][1].pos, Pairs(b)[n][2].pos), 2 * sp.h)}}

EnergyWrites(b) ==
    {Access("energy", Slot(Buckets[b].second[n], Buckets[b].second[n]), b) :
        n \in DOMAIN Buckets[b].second}

\* one iteration of the first parallel loop
Pass1Iter(b) ==
    /\ pc = "pass1"
    /\ b \in DOMAIN Buckets
    /\ b \notin passDone
    /\ LET ps     == Pairs(b)
           bucket == Buckets[b].second
       IN  /\ Ita' = [i \in Ids |->
                FSum(<<Ita[i]>> \o [m \in DOMAIN ps |->
                    IF Slot(ps[m][1], ps[m][2]) = i
                    THEN ItaTerm(ps[m][1], ps[m][2]) ELSE 0])]
           /\ colorField' = [i \in Ids |->
                FSum(<<colorField[i]>> \o [m \in DOMAIN ps |->
                    IF Slot(ps[m][1], ps[m][2]) = i
                    THEN ColorTerm(ps[m][1], ps[m][2]) ELSE 0])]
           /\ energy' = [i \in Ids |->
                IF \E n \in DOMAIN bucket : Slot(bucket[n], bucket[n]) = i
                THEN LET pi == bucket[CHOOSE n \in DOMAIN bucket :
                                         Slot(bucket[n], bucket[n]) = i]
                     IN  (sp.mass * Dot(pi.vel, pi.vel) * ONE) \div 2
                ELSE energy[i]]
    /\ passDone' = passDone \cup {b}
    /\ passWrites' = passWrites \cup ItaAccesses(b) \cup ColorAccesses(b)
                                \cup EnergyWrites(b)
    /\ passReads' = passReads \cup ItaAccesses(b) \cup ColorAccesses(b)
    /\ UNCHANGED <<driver, pc, fluid, waveCrest, gradient, ndiffuse, newborn, pool,
                   temps, spawnv, difId, di, deleted, output, ppHist>>

\* the end of the first parallel loop
Pass1 ==
    /\ pc = "pass1"
    /\ passDone = DOMAIN Buckets
    /\ pc' = "pass2"
    /\ passDone' = {} /\ passWrites' = {} /\ passReads' = {}
    /\ UNCHANGED <<driver, fluid, scratch, newborn, pool,
                   temps, spawnv, difId, di, deleted, output, ppHist>>

\* contribution of neighbour pj to gradient[pi.id]
GradTerm(pi, pj) ==
    LET xij  == substract(pi.pos, pj.pos)
        rval == FMul(colorField[pj.id], Wwendland(xij, sp.h))
    IN  <<rval * xij[1], rval * xij[2], rval * xij[3]>>

\* the accesses of iteration b of the second pass
GradientAccesses(b) ==
    {Access("gradient", Slot(Pairs(b)[m][1], Pairs(b)[m][2]), b) :
        m \in {n \in DOMAIN Pairs(b) :
                  WithinRadius(substract(Pairs(b)[n][1].pos, Pairs(b)[n][2].pos), 2 * sp.h)}}

ColorReads(b) ==
    {Access("colorField", Pairs(b)[m][2].id, b) :
        m \in {n \in DOMAIN Pairs(b) :
                  WithinRadius(substract(Pairs(b)[n][1].pos, Pairs(b)[n][2].pos), 2 * sp.h)}}

\* one iteration of the second parallel loop
Pass2Iter(b) ==
    /\ pc = "pass2"
    /\ b \in DOMAIN Buckets
    /\ b \notin passDone
    /\ LET ps == Pairs(b)
       IN  gradient' = [i \in Ids |->
                VSum(<<gradient[i]>> \o [m \in DOMAIN ps |->
                    IF Slot(ps[m][1], ps[m][2]) = i
                    THEN GradTerm(ps[m][1], ps[m][2]) ELSE <<0, 0, 0>>])]
    /\ passDone' = passDone \cup {b}
    /\ passWrites' = passWrites \cup GradientAccesses(b)
    /\ passReads' = passReads \cup GradientAccesses(b) \cup ColorReads(b)
    /\ UNCHANGED <<driver, pc, fluid, Ita, colorField, waveCrest, energy, ndiffuse,
                   newborn, pool, temps, spawnv, difId, di, deleted, output, ppHist>>

\* the end of the second parallel loop
Pass2 ==
    /\ pc = "pass2"
    /\ passDone = DOMAIN Buckets
    /\ pc' = "pass3"
    /\ passDone' = {} /\ passWrites' = {} /\ passReads' = {}
    /\ UNCHANGED <<driver, fluid, scratch,
                   newborn, pool, temps, spawnv, difId, di, deleted, output, ppHist>>

\* Surface curvature for 2 particles
curvature2p(xi, xj, ni, nj, h) ==
    FMul(FSub(ONE, DotF(normalizeF(ni), normalizeF(nj))), W(substract(xi, xj), h))

\* Wave crests (only the sign of the projection of xji on nni is used, which
\* the normalisation of xji by ops::distanceVector keeps)
crests2p(xi, xj, vi, ni, nj, h) ==
    LET xji == substract(xj, xi)
        nni == normalizeF(ni)
        nvi == normalize(vi)
    IN  IF FLt(dotProduct(xji, nni), 0) /\ FGeq(DotF(nvi, nni), (6 * ONE) \div 10)
        THEN curvature2p(xi, xj, ni, nj, h)
        ELSE 0

\* the pairs of iteration b of the third pass: pi at the surface only
SurfacePairs(b) ==
    SelectSeq(Pairs(b), LAMBDA p : colorField[p[1].id] < SURFACE)

\* the accesses of iteration b of the third pass
CrestAccesses(b) ==
    {Access("waveCrest", Slot(SurfacePairs(b)[m][1], SurfacePairs(b)[m][2]), b) :
        m \in DOMAIN SurfacePairs(b)}

CrestReads(b) ==
    {Access("colorField", Buckets[b].second[n].id, b) : n \in DOMAIN Buckets[b].second}
    \cup {Access("gradient", SurfacePairs(b)[m][1].id, b) : m \in DOMAIN SurfacePairs(b)}
    \cup {Access("gradient", SurfacePairs(b)[m][2].id, b) : m \in DOMAIN SurfacePairs(b)}

\* one iteration of the third parallel loop
Pass3Iter(b) ==
    /\ pc = "pass3"
    /\ b \in DOMAIN Buckets
    /\ b \notin passDone
    /\ LET ps == SurfacePairs(b)
       IN  waveCrest' = [i \in Ids |->
                FSum(<<waveCrest[i]>> \o [m \in DOMAIN ps |->
                    IF Slot(ps[m][1], ps[m][2]) = i
                    THEN crests2p(ps[m][1].pos, ps[m][2].pos, ps[m][1].vel,
                                  gradient[ps[m][1].id], gradient[ps[m][2].id], sp.h)
                    ELSE 0])]
    /\ passDone' = passDone \cup {b}
    /\ passWrites' = passWrites \cup CrestAccesses(b)
    /\ passReads' = passReads \cup CrestAccesses(b) \cup CrestReads(b)
    /\ UNCHANGED <<driver, pc, fluid, Ita, colorField, energy, gradient, ndiffuse,
                   newborn, pool, temps, spawnv, difId, di, deleted, output, ppHist>>

\* the end of the third parallel loop
Pass3 ==
    /\ pc = "pass3"
    /\ passDone = DOMAIN Buckets
    /\ pc' = "clamp"
    /\ passDone' = {} /\ passWrites' = {} /\ passReads' = {}
    /\ UNCHANGED <<driver, fluid, scratch,
                   newborn, pool, temps, spawnv, difId, di, deleted, output, ppHist>>

\* ------------------------------------------------- clamping and counting
\* Fourth pass: clamping function
Clamp ==
    /\ pc = "clamp"
    /\ waveCrest' = [i \in DOMAIN waveCrest |-> phi(waveCrest[i], sp.MINWC, sp.MAXWC)]
    /\ Ita' = [i \in DOMAIN Ita |-> phi(Ita[i], sp.MINTA, sp.MAXTA)]
    /\ energy' = [i \in DOMAIN energy |-> phi(energy[i], sp.MINK, sp.MAXK)]
    /\ pc' = "count"
    /\ UNCHANGED <<driver, fluid, colorField, gradient, ndiffuse, newborn, pool,
                   temps, spawnv, difId, di, deleted, output, ppHist, passv>>

\* floor of the birth rate of one fluid particle
DiffuseCount(e, ita, wc, tout) ==
    FMul(e, IMul(FAdd(IMul(sp.KTA, ita), IMul(sp.KWC, wc)), tout)) \div ONE

RECURSIVE SumTo(_, _)
SumTo(f, n) == IF n < 0 THEN 0 ELSE f[n] + SumTo(f, n - 1)

RECURSIVE Copies(_, _)
Copies(i, n) == IF n < 1 THEN <<>> ELSE <<i>> \o Copies(i, n - 1)

\* source ids of the newborns one bucket iteration creates, in loop order
RECURSIVE Worklist(_, _)
Worklist(parts, nd) ==
    IF parts = <<>> THEN <<>>
    ELSE Copies(Head(parts).id, nd[Head(parts).id]) \o Worklist(Tail(parts), nd)

\* INT_MIN of a 32-bit int
IntMin == -2147483647 - 1

\* values the conversion of a NaN double to int may deliver (the conversion is
\* undefined: INT_MIN with the x86 conversion instruction, 0 on others)
NaNAsInt == {0, IntMin}

\* the birth rate of fluid particle i is NaN
RateIsNaN(i) == IsNaN(energy[i]) \/ IsNaN(Ita[i]) \/ IsNaN(waveCrest[i])

\* ndiffuse as the fifth pass leaves it when a NaN rate converts to c
Counted(c) ==
    [i \in Ids |->
        IF RateIsNaN(i) THEN c
        ELSE DiffuseCount(energy[i], Ita[i], waveCrest[i], timeout.tout)]

\* Fifth pass with a negative total: the constructor of the newborn vectors
\* throws std::length_error, which nothing catches
CountAbort ==
    /\ pc = "count"
    /\ \E c \in NaNAsInt :
         /\ ndiffuse' = Counted(c)
         /\ npdiffuse' = SumTo(ndiffuse', npoints - 1)
    /\ npdiffuse' < 0
    /\ pc' = "aborted"
    /\ UNCHANGED <<driver, fluid, Ita, colorField, waveCrest, energy, gradient,
                   newborn, pool, temps, tempRand, idif, task, difId, di, deleted,
                   output, ppHist, passv>>

\* Fifth pass: number of diffuse particles generated; the newborn vectors and
\* the random samples are created and the spawn loop is entered
Count ==
    /\ pc = "count"
    /\ \E c \in NaNAsInt : ndiffuse' = Counted(c)
    /\ npdiffuse' = SumTo(ndiffuse', npoints - 1)
    /\ npdiffuse' >= 0
    /\ diffusePosit' = [k \in 0 .. npdiffuse' - 1 |-> <<0, 0, 0>>]
    /\ diffuseVel' = [k \in 0 .. npdiffuse' - 1 |-> <<0, 0, 0>>]
    /\ diffuseIds' = [k \in 0 .. npdiffuse' - 1 |-> 0]
    /\ diffuseTTL' = [k \in 0 .. npdiffuse' - 1 |-> 0]
    /\ diffuseDensity' = [k \in 0 .. npdiffuse' - 1 |-> 0]
    /\ diffuseSrc' = [k \in 0 .. npdiffuse' - 1 |-> -1]
    /\ diffuseWrites' = [k \in 0 .. npdiffuse' - 1 |-> 0]
    /\ \E tr \in [0 .. npdiffuse' - 1 -> RandTriples] :
         tempRand' = [k \in 0 .. 3 * npdiffuse' - 1 |-> tr[k \div 3][(k % 3) + 1]]
    /\ idif' = 0
    /\ task' = LET buckets == getNoEmptyBuckets(fluid, sp.h)
               IN  [b \in DOMAIN buckets |->
                      [work |-> Worklist(buckets[b].second, ndiffuse'),
                       ph |-> "write", li |-> 0, ld |-> 0]]
    /\ pc' = "spawn"
    /\ UNCHANGED <<driver, fluid, Ita, colorField, waveCrest, energy, gradient,
                   pool, temps, difId, di, deleted, output, ppHist, passv>>

\* ------------------------------------------------------------ spawn loop
\* first vector orthogonal to the velocity
SpawnE1(pos, vel) ==
    IF vel[1] # 0
    THEN normalizeF(<<solveEq(pos[3], pos[2], pos[1], vel[3], vel[2], vel[1], 0, 1), ONE, 0>>)
    ELSE IF vel[2] # 0
    THEN normalizeF(<<ONE, solveEq(pos[1], pos[3], pos[2], vel[1], vel[3], vel[2], 1, 0), 0>>)
    ELSE normalizeF(<<ONE, 0, solveEq(pos[1], pos[2], pos[3], vel[1], vel[2], vel[3], 1, 0)>>)

\* second vector, by the program's cross product formula
SpawnE2(e1, vel) ==
    normalizeF(<<FSub(IMul(e1[2], vel[3]), IMul(vel[2], e1[3])),
                 FSub(IMul(e1[1], vel[3]), IMul(vel[1], e1[3])),
                 FSub(IMul(e1[1], vel[2]), IMul(vel[1], e1[2]))>>)

\* a fixed-point length or NaN as a length of the model's grid
ToGrid(x) == IF IsNaN(x) THEN NaN ELSE x \div ONE

\* position and velocity of the newborn of particle pi drawn with (u1, u2, u3)
Newborn(pi, u1, u2, u3, tout) ==
    LET pos  == pi.pos
        vel  == pi.vel
        e1   == SpawnE1(pos, vel)
        e2   == SpawnE2(e1, vel)
        nvel == normalize(vel)
        hh   == FMul(u1, magnitude(vel) * tout) \div 2
        r    == sp.h * FSqrt(u2)
        rc   == FMul(r, CosTurn(u3))
        rs   == FMul(r, SinTurn(u3))
        rad(k) == FAdd(FMul(rc, e1[k]), FMul(rs, e2[k]))
        px(k) == FAdd(pos[k], ToGrid(FAdd(rad(k), FMul(hh, nvel[k]))))
        vx(k) == FAdd(ToGrid(rad(k)), vel[k])
    IN  [pos |-> <<px(1), px(2), px(3)>>, vel |-> <<vx(1), vx(2), vx(3)>>]

\* Particle lifetime
Lifetime(nd) == nd * sp.LIFEFIME

\* a thread loads idif and difId and fills the slot
SpawnWrite(b) ==
    /\ pc = "spawn"
    /\ task[b].ph = "write"
    /\ task[b].work # <<>>
    /\ LET i  == Head(task[b].work)
           nb == Newborn(ById(i), tempRand[idif * 3], tempRand[idif * 3 + 1],
                         tempRand[idif * 3 + 2], timeout.tout)
       IN  /\ diffusePosit' = [diffusePosit EXCEPT ![idif] = nb.pos]
           /\ diffuseVel' = [diffuseVel EXCEPT ![idif] = nb.vel]
           /\ diffuseIds' = [diffuseIds EXCEPT ![idif] = difId]
           /\ diffuseTTL' = [diffuseTTL EXCEPT ![idif] = Lifetime(ndiffuse[i])]
           /\ diffuseSrc' = [diffuseSrc EXCEPT ![idif] = i]
           /\ diffuseWrites' = [diffuseWrites EXCEPT ![idif] = @ + 1]
    /\ task' = [task EXCEPT ![b].ph = "incId", ![b].li = idif, ![b].ld = difId]
    /\ UNCHANGED <<driver, pc, fluid, scratch, diffuseDensity, pool, temps,
                   npdiffuse, tempRand, idif, difId, di, deleted, output, ppHist, passv>>

\* difId++ : the thread stores the value it loaded, plus one
SpawnIncId(b) ==
    /\ pc = "spawn"
    /\ task[b].ph = "incId"
    /\ difId' = task[b].ld + 1
    /\ task' = [task EXCEPT ![b].ph = "incIdx"]
    /\ UNCHANGED <<driver, pc, fluid, scratch, newborn, pool, temps,
                   npdiffuse, tempRand, idif, di, deleted, output, ppHist, passv>>

\* idif++ : the thread stores the value it loaded, plus one
SpawnIncIdx(b) ==
    /\ pc = "spawn"
    /\ task[b].ph = "incIdx"
    /\ idif' = task[b].li + 1
    /\ task' = [task EXCEPT ![b].ph = "write", ![b].work = Tail(task[b].work)]
    /\ UNCHANGED <<driver, pc, fluid, scratch, newborn, pool, temps,
                   npdiffuse, tempRand, difId, di, deleted, output, ppHist, passv>>

\* number of fluid particles within h of a point (the container has no
\* bucket around a NaN point)
Density(p) ==
    IF HasNaN(p) THEN 0
    ELSE LET sb == getSurroundingBuckets(fluid, sp.h, CellOf(p, sp.h))
         IN  Cardinality({n \in DOMAIN sb : WithinRadius(substract(p, sb[n].pos), sp.h)})

\* end of the parallel spawn loop, then the seventh pass: classify particles
Classify ==
    /\ pc = "spawn"
    /\ \A b \in DOMAIN task : task[b].work = <<>>
    /\ diffuseDensity' = [k \in DOMAIN diffuseDensity |-> Density(diffusePosit[k])]
    /\ pc' = "update"
    /\ UNCHANGED <<driver, fluid, scratch, diffusePosit, diffuseVel, diffuseIds,
                   diffuseTTL, diffuseSrc, diffuseWrites, pool, temps, spawnv, difId, di, deleted, output, ppHist, passv>>

\* ------------------------------------------------------ update particles
\* quotient of the weighted velocity sum by the weight sum
VDiv(a, b) == IF IsNaN(a) \/ IsNaN(b) \/ b = 0 THEN NaN ELSE a \div b

\* class of a density value as the advector branches on it
IsSpray(d) == d < sp.SPRAY

IsBubble(d) == ~IsSpray(d) /\ d > sp.BUBBLES

IsFoam(d) == ~IsSpray(d) /\ ~IsBubble(d)

\* pos + tout * vel, component k
Step(pos, vel, tout, k) == FAdd(pos[k], IMul(tout, vel[k]))

\* the spray velocity with gravity pointing upwards
SprayVelUp(vel, tout) == <<vel[1], vel[2], FAdd(vel[3], G * tout)>>

\* velocity of a spray particle: gravity only
SprayVel(vel, tout) == <<vel[1], vel[2], FAdd(vel[3], 0 - G * tout)>>

\* advection law the eighth pass selects for a density: 0 spray, 1 foam, 2 bubble
Law(d) == IF IsSpray(d) THEN 0 ELSE IF IsBubble(d) THEN 2 ELSE 1

\* eighth pass, one iteration: new density, velocity and position
Advect(pxd, vel, tout) ==
    LET d    == Density(pxd)
        sb   == IF HasNaN(pxd) THEN <<>>
                ELSE getSurroundingBuckets(fluid, sp.h, CellOf(pxd, sp.h))
        tval(n) == Wwendland(substract(pxd, sb[n].pos), sp.h)
        den  == IF d >= sp.SPRAY THEN FSum([n \in DOMAIN sb |-> tval(n)]) ELSE 0
        sum  == IF d >= sp.SPRAY
                THEN VSum([n \in DOMAIN sb |->
                        <<sb[n].vel[1] * tval(n), sb[n].vel[2] * tval(n),
                          sb[n].vel[3] * tval(n)>>])
                ELSE <<0, 0, 0>>
        num  == <<VDiv(sum[1], den), VDiv(sum[2], den), VDiv(sum[3], den)>>
        drag(k) == FMul(FSub(num[k], vel[k]), sp.KD)
        vs   == SprayVel(vel, tout)
        vb   == <<FAdd(vel[1], drag(1)), FAdd(vel[2], drag(2)),
                  FAdd(vel[3], FAdd(FMul(G * tout, sp.KB), drag(3)))>>
        v    == CASE Law(d) = 0 -> vs [] Law(d) = 2 -> vb [] OTHER -> num
    IN  [density |-> d, vel |-> v, law |-> Law(d), den |-> den,
         pos |-> <<Step(pxd, v, tout, 1), Step(pxd, v, tout, 2), Step(pxd, v, tout, 3)>>]

\* history of a particle after one advection
Advanced(hs, a, tout) ==
    [hs EXCEPT !.n = hs.n + 1,
               !.dt = tout,
               !.spray = hs.spray /\ a.law = 0 /\ a.density = 0
                            /\ (hs.n = 0 \/ hs.dt = tout),
               !.foam = hs.foam /\ a.law = 1,
               !.law = a.law,
               !.den = a.den]

\* Update particles: the whole parallel loop (an iteration touches slot i only)
Update ==
    /\ UNCHANGED passv
    /\ pc = "update"
    /\ LET adv == [i \in DOMAIN ppIds |-> Advect(ppPosit[i], ppVel[i], timeout.tout)]
       IN  /\ ppPosit' = [i \in DOMAIN ppIds |-> adv[i].pos]
           /\ ppVel' = [i \in DOMAIN ppIds |-> adv[i].vel]
           /\ ppDensity' = [i \in DOMAIN ppIds |-> adv[i].density]
           /\ ppHist' = [i \in DOMAIN ppIds |-> Advanced(ppHist[i], adv[i], timeout.tout)]
    /\ tempPosit' = <<>> /\ tempVel' = <<>> /\ tempIds' = <<>>
    /\ tempTTL' = <<>> /\ tempDensity' = <<>>
    /\ di' = 1
    /\ pc' = "delete"
    /\ UNCHANGED <<driver, fluid, scratch, newborn, ppIds, ppTTL, spawnv, difId,
                   deleted, output>>

\* ------------------------------------------------------ delete particles
\* Decrease TTL for foam particles
DecreasesTTL(d) == d > sp.SPRAY /\ d < sp.BUBBLES

\* the TTL of a particle of density d after the decrement statement
Decremented(ttl, d) == IF DecreasesTTL(d) THEN ttl - 1 ELSE ttl

\* the removal test without the comparison against the upper x bound
RemovedNoMaxX(ttl, p) ==
    \/ ttl < 0
    \/ FGeq(sp.MINX, p[1]) \/ FGeq(sp.MINY, p[2]) \/ FGeq(sp.MINZ, p[3])
    \/ FGeq(p[2], sp.MAXY) \/ FGeq(p[3], sp.MAXZ)

\* the removal test with the TTL compared against zero inclusively
RemovedAtZero(ttl, p) ==
    \/ ttl <= 0
    \/ FGeq(sp.MINX, p[1]) \/ FGeq(sp.MINY, p[2]) \/ FGeq(sp.MINZ, p[3])
    \/ FGeq(p[1], sp.MAXX) \/ FGeq(p[2], sp.MAXY) \/ FGeq(p[3], sp.MAXZ)

\* TTL is less than zero, or the particle is out of the domain
Removed(ttl, p) ==
    \/ ttl < 0
    \/ FGeq(sp.MINX, p[1]) \/ FGeq(sp.MINY, p[2]) \/ FGeq(sp.MINZ, p[3])
    \/ FGeq(p[1], sp.MAXX) \/ FGeq(p[2], sp.MAXY) \/ FGeq(p[3], sp.MAXZ)

\* one iteration of the delete loop
DeleteStep ==
    /\ UNCHANGED passv
    /\ pc = "delete"
    /\ di <= Len(ppIds)
    /\ LET ttl == Decremented(ppTTL[di], ppDensity[di])
           keep == ~Removed(ttl, ppPosit[di])
       IN  /\ ppTTL' = [ppTTL EXCEPT ![di] = ttl]
           /\ ppHist' = [ppHist EXCEPT ![di].dec =
                            IF DecreasesTTL(ppDensity[di]) THEN @ + 1 ELSE @]
           /\ tempPosit' = IF keep THEN Append(tempPosit, ppPosit[di]) ELSE tempPosit
           /\ tempVel' = IF keep THEN Append(tempVel, ppVel[di]) ELSE tempVel
           /\ tempIds' = IF keep THEN Append(tempIds, ppIds[di]) ELSE tempIds
           /\ tempTTL' = IF keep THEN Append(tempTTL, ttl) ELSE tempTTL
           /\ tempDensity' = IF keep THEN Append(tempDensity, ppDensity[di]) ELSE tempDensity
    /\ di' = di + 1
    /\ UNCHANGED <<driver, pc, fluid, scratch, newborn, ppPosit, ppVel, ppIds,
                   ppDensity, spawnv, difId, deleted, output>>

\* subsequence of s at the indices from n on that lie in keep, in order
RECURSIVE Kept(_, _, _)
Kept(s, keep, n) ==
    IF n > Len(s) THEN <<>>
    ELSE (IF n \in keep THEN <<s[n]>> ELSE <<>>) \o Kept(s, keep, n + 1)

\* the temporaries are moved into the pool (a moved-from vector is empty) and
\* "Deleted" is printed
DeleteEnd ==
    /\ UNCHANGED passv
    /\ pc = "delete"
    /\ di > Len(ppIds)
    /\ ppIds' = tempIds /\ ppPosit' = tempPosit /\ ppVel' = tempVel
    /\ ppDensity' = tempDensity /\ ppTTL' = tempTTL
    /\ tempPosit' = <<>> /\ tempVel' = <<>> /\ tempIds' = <<>>
    /\ tempTTL' = <<>> /\ tempDensity' = <<>>
    /\ ppHist' = Kept(ppHist, {n \in DOMAIN ppIds : ~Removed(ppTTL[n], ppPosit[n])}, 1)
    /\ deleted' = Len(ppIds') - Len(tempIds')
    /\ pc' = "append"
    /\ UNCHANGED <<driver, fluid, scratch, newborn, spawnv, difId, di, output>>

\* --------------------------------------------------- append and save
\* a vector indexed from 0 as a sequence
AsSeq(f, n) == [k \in 1 .. n |-> f[k - 1]]

\* type code the emitters write for a density
ttypeText(d) == IF d < sp.SPRAY THEN 0 ELSE IF d > sp.BUBBLES THEN 2 ELSE 1

\* the VTK type code with the spray test made inclusive
ttypeVtkInclusive(d) == IF d <= sp.SPRAY THEN 0 ELSE IF d > sp.BUBBLES THEN 2 ELSE 1

ttypeVtk(d) == IF d < sp.SPRAY THEN 0 ELSE IF d > sp.BUBBLES THEN 2 ELSE 1

\* history of a particle entering the pool
Born(p, v, ttl) ==
    [z0 |-> p[3], vz0 |-> v[3], n |-> 0, dt |-> 0, spray |-> TRUE,
     foam |-> TRUE, law |-> -1, den |-> 0, ttl0 |-> ttl, dec |-> 0]

\* Append new particles, save to file (text_files and vtk_diffuse_files on),
\* next frame
AppendSave ==
    /\ UNCHANGED passv
    /\ pc = "append"
    /\ ppIds' = ppIds \o AsSeq(diffuseIds, npdiffuse)
    /\ ppPosit' = ppPosit \o AsSeq(diffusePosit, npdiffuse)
    /\ ppVel' = ppVel \o AsSeq(diffuseVel, npdiffuse)
    /\ ppDensity' = ppDensity \o AsSeq(diffuseDensity, npdiffuse)
    /\ ppTTL' = ppTTL \o AsSeq(diffuseTTL, npdiffuse)
    /\ ppHist' = ppHist \o [k \in 1 .. npdiffuse |->
                              Born(diffusePosit[k - 1], diffuseVel[k - 1], diffuseTTL[k - 1])]
    /\ outTxt' = [i \in DOMAIN ppDensity' |-> ttypeText(ppDensity'[i])]
    /\ outVtk' = [i \in DOMAIN ppDensity' |-> ttypeVtk(ppDensity'[i])]
    /\ emitted' = Append(emitted, nstep)
    /\ nstep' = nstep + 1
    /\ pc' = "loop"
    /\ UNCHANGED <<sp, files, tstep_idx, timeout, fluid, scratch, newborn, temps,
                   spawnv, difId, di, deleted>>

Next ==
    \/ LoadFrame
    \/ LoadFail
    \/ LoopExit
    \/ \E b \in DOMAIN Buckets : Pass1Iter(b) \/ Pass2Iter(b) \/ Pass3Iter(b)
    \/ Pass1 \/ Pass2 \/ Pass3 \/ Clamp \/ Count \/ CountAbort
    \/ \E b \in DOMAIN task : SpawnWrite(b) \/ SpawnIncId(b) \/ SpawnIncIdx(b)
    \/ Classify
    \/ Update
    \/ DeleteStep \/ DeleteEnd
    \/ AppendSave

Spec == Init /\ [][Next]_vars
\* ------------------------------------------- the clamp on enumerated input
\* values a scratch field or a clamp bound may hold, NaN included
PhiValues == (-PhiRange .. PhiRange) \cup {NaN}

\* runSimulation about to execute the fourth pass on a frame of one fluid
\* particle whose three fields hold I, with every clamp window at (tmin, tmax)
InitPhi ==
    \E I \in PhiValues : \E tmin, tmax \in -PhiRange .. PhiRange :
        /\ sp = [BaseParams EXCEPT !.MINTA = tmin, !.MAXTA = tmax,
                                   !.MINWC = tmin, !.MAXWC = tmax,
                                   !.MINK = tmin, !.MAXK = tmax]
        /\ files = DataDir(BaseParams, <<"rest1">>)
        /\ pc = "clamp"
        /\ nstep = BaseParams.nstart
        /\ tstep_idx = 0
        /\ timeout = BaseParams.timesteps[1]
        /\ fluid = Snapshots["rest1"]
        /\ Ita = [i \in {0} |-> I]
        /\ waveCrest = [i \in {0} |-> I]
        /\ energy = [i \in {0} |-> I]
        /\ colorField = [i \in {0} |-> 0]
        /\ gradient = [i \in {0} |-> <<0, 0, 0>>]
        /\ ndiffuse = [i \in {0} |-> 0]
        /\ npdiffuse = 0
        /\ tempRand = <<>>
        /\ diffusePosit = <<>> /\ diffuseVel = <<>> /\ diffuseIds = <<>>
        /\ diffuseTTL = <<>> /\ diffuseDensity = <<>> /\ diffuseSrc = <<>>
        /\ diffuseWrites = <<>>
        /\ idif = 0
        /\ difId = 0
        /\ task = <<>>
        /\ ppPosit = <<>> /\ ppVel = <<>> /\ ppIds = <<>>
        /\ ppTTL = <<>> /\ ppDensity = <<>>
        /\ tempPosit = <<>> /\ tempVel = <<>> /\ tempIds = <<>>
        /\ tempTTL = <<>> /\ tempDensity = <<>>
        /\ di = 0
        /\ deleted = 0
        /\ emitted = <<>>
        /\ outTxt = <<>> /\ outVtk = <<>>
        /\ ppHist = <<>>
        /\ passDone = {} /\ passWrites = {} /\ passReads = {}

SpecPhi == InitPhi /\ [][Clamp]_vars

\* ================================================================ claims
\* a position strictly inside the configured domain box
StrictlyInside(p) ==
    /\ ~HasNaN(p)
    /\ sp.MINX < p[1] /\ p[1] < sp.MAXX
    /\ sp.MINY < p[2] /\ p[2] < sp.MAXY
    /\ sp.MINZ < p[3] /\ p[3] < sp.MAXZ

\* a frame has ended: the pool is the one left by delete and append
FrameEnded == pc = "loop" /\ emitted # <<>>

\* C1 as stated: at the end of every frame every particle of the pool lies
\* strictly inside the domain and has ttl >= 0.
C1_PoolInsideAtFrameEnd ==
    FrameEnded =>
        \A i \in DOMAIN ppIds : StrictlyInside(ppPosit[i]) /\ ppTTL[i] >= 0

\* no coordinate compares at or beyond a domain bound (a comparison with a
\* NaN coordinate is false)
NotOutside(p) ==
    /\ ~FGeq(sp.MINX, p[1]) /\ ~FGeq(p[1], sp.MAXX)
    /\ ~FGeq(sp.MINY, p[2]) /\ ~FGeq(p[2], sp.MAXY)
    /\ ~FGeq(sp.MINZ, p[3]) /\ ~FGeq(p[3], sp.MAXZ)

\* C1: every particle the delete stage keeps has ttl >= 0 and no coordinate at
\* or beyond a domain bound, so it lies strictly inside the domain unless a
\* coordinate is NaN; at the end of the frame this holds of every particle of
\* the pool but the frame's newborns, which are appended after the delete stage.
C1_SurvivorsInside ==
    /\ pc = "append" =>
          \A i \in DOMAIN ppIds :
              /\ ppTTL[i] >= 0
              /\ NotOutside(ppPosit[i])
              /\ HasNaN(ppPosit[i]) \/ StrictlyInside(ppPosit[i])
    /\ FrameEnded =>
          \A i \in 1 .. Len(ppIds) - npdiffuse :
              /\ ppTTL[i] >= 0
              /\ NotOutside(ppPosit[i])
              /\ HasNaN(ppPosit[i]) \/ StrictlyInside(ppPosit[i])

\* the delete stage dropped a particle and kept another one
C1_Witness ==
    /\ pc = "append"
    /\ ppIds # <<>>
    /\ di - 1 > Len(ppIds)

\* C2 as stated: in the pool every frame leaves, the ids are strictly
\* increasing with the pool index, so no two particles share an id and no id
\* is below one assigned earlier.
C2_IdsStrictlyIncreasing ==
    FrameEnded =>
        \A i, j \in DOMAIN ppIds : i < j => ppIds[i] < ppIds[j]

\* C3 as stated: the delete stage decrements the ttl of a particle by one if
\* and only if SPRAY <= density <= BUBBLES, and leaves it unchanged otherwise.
C3_DecrementIffFoam ==
    [][pc = "delete" /\ di <= Len(ppIds) /\ di' = di + 1 =>
          IF sp.SPRAY <= ppDensity[di] /\ ppDensity[di] <= sp.BUBBLES
          THEN ppTTL'[di] = ppTTL[di] - 1
          ELSE ppTTL'[di] = ppTTL[di]]_vars

\* C4 as stated: a particle that entered the pool with ttl = T >= 1 and was
\* foam in every frame since is gone once its ttl was decremented T times.
C4_RemovedAtTthDecrement ==
    pc = "append" =>
        \A i \in DOMAIN ppIds :
            ppHist[i].foam /\ ppHist[i].ttl0 >= 1 => ppHist[i].dec < ppHist[i].ttl0

\* C4: the ttl of a particle that entered the pool with ttl = T >= 0 is T
\* minus the number of its decrements; a particle inside the domain is removed
\* by the delete iteration that decrements its ttl for the (T+1)-th time and by
\* no other, so between delete stages no particle of the pool has been
\* decremented more than T times.
C4_RemovedAtNextDecrement ==
    /\ [](\A i \in DOMAIN ppIds :
            /\ ppTTL[i] = ppHist[i].ttl0 - ppHist[i].dec
            /\ pc # "delete" /\ ppHist[i].ttl0 >= 0 => ppHist[i].dec <= ppHist[i].ttl0)
    /\ [][pc = "delete" /\ di <= Len(ppIds) /\ di' = di + 1 =>
            (ppHist'[di].ttl0 >= 0 /\ NotOutside(ppPosit[di]) =>
                (tempIds' = tempIds <=> ppHist'[di].dec = ppHist'[di].ttl0 + 1))]_vars

\* a particle born with ttl >= 1 and foam in every frame since has just been
\* decremented for the (T+1)-th time
C4_Witness ==
    /\ pc = "delete" /\ di > 1
    /\ ppHist[di - 1].foam
    /\ ppHist[di - 1].ttl0 >= 1
    /\ ppHist[di - 1].dec = ppHist[di - 1].ttl0 + 1

\* the index reached from k by advancing while the next entry lies before n
RECURSIVE CatchUp(_, _, _)
CatchUp(k, n, ts) ==
    IF k + 1 < Len(ts) /\ n > ts[k + 2].nstep THEN CatchUp(k + 1, n, ts) ELSE k

\* C5 as stated: the frame uses the index reached from the previous frame's
\* index by advancing repeatedly while the next entry lies before the frame.
C5_IndexCatchesUp ==
    [][pc = "loop" /\ pc' # "loop" /\ nstep <= sp.nend =>
          /\ tstep_idx' = CatchUp(tstep_idx, nstep, sp.timesteps)
          /\ timeout' = sp.timesteps[CatchUp(tstep_idx, nstep, sp.timesteps) + 1]]_vars

\* C6: the frames written are nstart, nstart + 1, ... in this order, each once
\* and none beyond nend; no stage runs on a frame whose snapshot is missing;
\* the failed load ends the loop with the pool, the outputs and the id counter
\* as the previous frame left them, and nothing happens after the loop ended.
C6_FramesInOrderCleanStop ==
    /\ [](/\ emitted = [k \in 1 .. Len(emitted) |-> sp.nstart + k - 1]
          /\ nstep = sp.nstart + Len(emitted)
          /\ \A k \in DOMAIN emitted : emitted[k] <= sp.nend
          /\ pc \notin {"loop", "done"} => files[nstep] # "missing")
    /\ [][/\ pc = "loop" /\ nstep <= sp.nend /\ files[nstep] = "missing" =>
                pc' = "done" /\ UNCHANGED <<nstep, fluid, scratch, newborn, pool, temps,
                                             spawnv, difId, output>>
          /\ pc = "done" => UNCHANGED vars]_vars

\* a load failed after at least one frame was written
C6_Witness ==
    /\ pc = "done"
    /\ nstep <= sp.nend
    /\ emitted # <<>>

\* C7 as stated: after the spawn loop every ndiffuse[i] is >= 0, the newborn
\* vectors hold the sum of ndiffuse, and fluid particle i filled exactly
\* ndiffuse[i] of the slots.
C7_SourceContributes ==
    pc = "update" =>
        /\ npdiffuse = SumTo(ndiffuse, npoints - 1)
        /\ \A k \in DOMAIN diffuseIds : k \in 0 .. npdiffuse - 1
        /\ \A i \in Ids :
              /\ ndiffuse[i] >= 0
              /\ Cardinality({k \in DOMAIN diffuseSrc : diffuseSrc[k] = i}) = ndiffuse[i]

\* the three cases of the clamp for a window tmin < tmax
PhiCases(I, tmin, tmax) ==
    IF I <= tmin THEN 0
    ELSE IF I >= tmax THEN ONE
    ELSE ((I - tmin) * ONE) \div (tmax - tmin)

\* the clamp of value I into window (tmin, tmax) gave r
Clamped(I, tmin, tmax, r) ==
    tmin < tmax =>
        /\ 0 <= r /\ r <= ONE
        /\ ~IsNaN(I) => r = PhiCases(I, tmin, tmax)

\* C8: for every clamp window with tmin < tmax the fourth pass replaces a field
\* value I by 0 if I <= tmin, by 1 if I >= tmax and by (I - tmin)/(tmax - tmin)
\* otherwise, and the result lies in [0, 1] (it is 1 for a NaN input).
C8_PhiThreeCases ==
    [][pc = "clamp" /\ pc' = "count" =>
          \A i \in DOMAIN Ita :
              /\ Clamped(Ita[i], sp.MINTA, sp.MAXTA, Ita'[i])
              /\ Clamped(waveCrest[i], sp.MINWC, sp.MAXWC, waveCrest'[i])
              /\ Clamped(energy[i], sp.MINK, sp.MAXK, energy'[i])]_vars

\* the fourth pass mapped a value strictly inside its window
C8_Witness ==
    /\ pc = "count"
    /\ sp.MINTA < sp.MAXTA
    /\ \E i \in DOMAIN Ita : 0 < Ita[i] /\ Ita[i] < ONE

\* class of a density value: 0 spray, 1 foam, 2 bubble
ClassOf(d) ==
    CASE d < sp.SPRAY -> 0
      [] sp.SPRAY <= d /\ d <= sp.BUBBLES -> 1
      [] d > sp.BUBBLES -> 2

\* C9: with SPRAY < BUBBLES exactly one of  density < SPRAY,
\* SPRAY <= density <= BUBBLES,  density > BUBBLES  holds of a particle, and for
\* the density the eighth pass stored, the advection law it applied and the
\* type codes of the text and the VTK emitter are the ones of this class.
C9_ClassesAgree ==
    FrameEnded /\ sp.SPRAY < sp.BUBBLES =>
        \A i \in DOMAIN ppIds :
            LET d == ppDensity[i]
            IN  /\ Cardinality({c \in {"s", "f", "b"} :
                        \/ c = "s" /\ d < sp.SPRAY
                        \/ c = "f" /\ sp.SPRAY <= d /\ d <= sp.BUBBLES
                        \/ c = "b" /\ d > sp.BUBBLES}) = 1
                /\ outTxt[i] = ClassOf(d)
                /\ outVtk[i] = ClassOf(d)
                /\ ppHist[i].law # -1 => ppHist[i].law = ClassOf(d)

\* a particle with density equal to the SPRAY threshold was advected and written
C9_Witness ==
    /\ FrameEnded
    /\ sp.SPRAY < sp.BUBBLES
    /\ \E i \in DOMAIN ppIds : ppHist[i].law # -1 /\ ppDensity[i] = sp.SPRAY

\* C10 as stated: after N >= 1 frames of spray flight without fluid neighbours
\* and with constant dt, z = z0 + vz*t - g*t^2/2 at t = N*dt (doubled).
C10_AnalyticTrajectory ==
    \A i \in DOMAIN ppIds :
        LET hs == ppHist[i]
            t  == hs.n * hs.dt
        IN  hs.spray /\ hs.n >= 1 =>
                IF IsNaN(hs.z0) \/ IsNaN(hs.vz0)
                THEN IsNaN(ppPosit[i][3])
                ELSE 2 * ppPosit[i][3] = 2 * hs.z0 + 2 * hs.vz0 * t - G * t * t

\* C10: after N >= 1 frames of spray flight without fluid neighbours and with
\* constant dt, z = z0 + vz*N*dt - g*dt^2*N*(N+1)/2 (doubled), the closed form
\* of  vz <- vz - g*dt; z <- z + dt*vz.  For a particle that entered the pool
\* with a NaN z0 or vz the closed form is NaN, and so is z.
C10_EulerTrajectory ==
    \A i \in DOMAIN ppIds :
        LET hs == ppHist[i]
        IN  hs.spray /\ hs.n >= 1 =>
                IF IsNaN(hs.z0) \/ IsNaN(hs.vz0)
                THEN IsNaN(ppPosit[i][3])
                ELSE 2 * ppPosit[i][3] =
                        2 * hs.z0 + 2 * hs.vz0 * hs.n * hs.dt
                            - G * hs.dt * hs.dt * hs.n * (hs.n + 1)

\* a particle has flown as spray for two frames
C10_Witness ==
    \E i \in DOMAIN ppIds : ppHist[i].spray /\ ppHist[i].n >= 2

\* a clamp window of the parameters is empty or reversed
BadWindow ==
    sp.MAXTA <= sp.MINTA \/ sp.MAXWC <= sp.MINWC \/ sp.MAXK <= sp.MINK

\* C11 as stated: in a run with a clamp window max <= min no frame is loaded,
\* the clamp is never reached and no snapshot is written.
C11_BadWindowRejected ==
    BadWindow =>
        /\ pc \in {"loop", "done"}
        /\ fluid = <<>>
        /\ emitted = <<>>

\* C12 as stated: no newborn slot is filled from a fluid particle whose
\* velocity is the zero vector (so its basis is never constructed).
C12_ZeroVelocityNeverSpawns ==
    pc \in {"spawn", "update"} =>
        \A k \in DOMAIN diffuseSrc :
            diffuseSrc[k] # -1 => ById(diffuseSrc[k]).vel # <<0, 0, 0>>

\* C13 as stated: the foam and the bubble law are never applied to a particle
\* whose Wendland weight sum (the divisor of the smoothed velocity) is zero.
C13_NoZeroDenominator ==
    \A i \in DOMAIN ppHist :
        ppHist[i].law \in {1, 2} => ppHist[i].den # 0

\* C14 as stated: when the spawn loop has ended every newborn slot (and with
\* it every triple of random samples) has been used by exactly one write, the
\* slots of a source particle are contiguous, and the newborn ids are distinct.
C14_SlotsWrittenOnce ==
    pc = "update" =>
        /\ \A k \in 0 .. npdiffuse - 1 : diffuseWrites[k] = 1
        /\ \A k1, k2, k3 \in 0 .. npdiffuse - 1 :
              k1 < k2 /\ k2 < k3 /\ diffuseSrc[k1] = diffuseSrc[k3]
                  => diffuseSrc[k2] = diffuseSrc[k1]
        /\ \A k1, k2 \in 0 .. npdiffuse - 1 :
              k1 # k2 => diffuseIds[k1] # diffuseIds[k2]

\* C17 as stated: the number reported as "Deleted" is the size of the pool
\* before the frame's cull minus its size after the cull.
C17_DeletedIsRemoved ==
    pc = "append" => deleted = (di - 1) - Len(ppIds)

\* the pool in the second state of a step is the pool restricted to the
\* indices K, in the old order
PoolRestrictedTo(K) ==
    /\ ppIds' = Kept(ppIds, K, 1)
    /\ ppPosit' = Kept(ppPosit, K, 1)
    /\ ppVel' = Kept(ppVel, K, 1)
    /\ ppDensity' = Kept(ppDensity, K, 1)
    /\ ppTTL' = Kept(ppTTL, K, 1)

\* C16: from the load of a frame to its update stage the pool is the one the
\* previous frame left; stages 8 and 9 leave the newborn vectors alone, keep
\* the ids in place and end with the survivors in their old order; stage 10
\* appends the newborn vectors as they are after all survivors, and every
\* appended newborn was written at spawn from a source i with the ttl
\* ndiffuse[i] * LIFEFIME.
C16_NewbornsAppendedAsSpawned ==
    [][/\ pc \in {"pass1", "pass2", "pass3", "clamp", "count", "spawn"} =>
             UNCHANGED pool
       /\ pc \in {"update", "delete"} =>
             /\ UNCHANGED newborn
             /\ pc' = "delete" => ppIds' = ppIds /\ Len(ppPosit') = Len(ppIds)
             /\ pc' = "append" => \E K \in SUBSET DOMAIN ppIds : PoolRestrictedTo(K)
       /\ pc = "append" /\ pc' = "loop" =>
             /\ UNCHANGED newborn
             /\ ppIds' = ppIds \o [k \in 1 .. npdiffuse |-> diffuseIds[k - 1]]
             /\ ppPosit' = ppPosit \o [k \in 1 .. npdiffuse |-> diffusePosit[k - 1]]
             /\ ppVel' = ppVel \o [k \in 1 .. npdiffuse |-> diffuseVel[k - 1]]
             /\ ppDensity' = ppDensity \o [k \in 1 .. npdiffuse |-> diffuseDensity[k - 1]]
             /\ ppTTL' = ppTTL \o [k \in 1 .. npdiffuse |-> diffuseTTL[k - 1]]
             /\ \A k \in 0 .. npdiffuse - 1 :
                   /\ diffuseSrc[k] # -1
                   /\ diffuseTTL[k] = ndiffuse[diffuseSrc[k]] * sp.LIFEFIME]_vars

\* the values a serial execution of the three passes leaves in the scratch
\* vectors, as functions of the loaded snapshot
SerialIta ==
    [i \in Ids |->
        LET sb == Neighbours(ById(i))
        IN  FSum([n \in DOMAIN sb |-> ItaTerm(ById(i), sb[n])])]

SerialColor ==
    [i \in Ids |->
        LET sb == Neighbours(ById(i))
        IN  FSum([n \in DOMAIN sb |-> ColorTerm(ById(i), sb[n])])]

SerialEnergy ==
    [i \in Ids |-> (sp.mass * Dot(ById(i).vel, ById(i).vel) * ONE) \div 2]

SerialGradient ==
    [i \in Ids |->
        LET sb == Neighbours(ById(i))
        IN  VSum([n \in DOMAIN sb |->
               LET xij  == substract(ById(i).pos, sb[n].pos)
                   rval == FMul(SerialColor[sb[n].id], Wwendland(xij, sp.h))
               IN  <<rval * xij[1], rval * xij[2], rval * xij[3]>>])]

SerialCrest ==
    [i \in Ids |->
        IF SerialColor[i] < SURFACE
        THEN LET sb == Neighbours(ById(i))
             IN  FSum([n \in DOMAIN sb |->
                    crests2p(ById(i).pos, sb[n].pos, ById(i).vel,
                             SerialGradient[i], SerialGradient[sb[n].id], sp.h)])
        ELSE 0]

PassEnded(p) == pc = p /\ passDone = DOMAIN Buckets

\* C15: in each of the three field passes, whatever the order in which the
\* per-bucket iterations run, no scratch slot is written by two iterations, no
\* slot written in the pass is read by another iteration, and when the pass
\* ends every slot holds the value of the serial execution.
C15_PassesRaceFree ==
    /\ \A w1, w2 \in passWrites :
          w1.arr = w2.arr /\ w1.slot = w2.slot => w1.it = w2.it
    /\ \A w \in passWrites : \A r \in passReads :
          w.arr = r.arr /\ w.slot = r.slot => w.it = r.it
    /\ PassEnded("pass1") =>
          Ita = SerialIta /\ colorField = SerialColor /\ energy = SerialEnergy
    /\ PassEnded("pass2") => gradient = SerialGradient
    /\ PassEnded("pass3") => waveCrest = SerialCrest

\* the second pass ended with two iterations, one of which read the colour
\* field of a particle whose gradient slot the other one wrote
C15_Witness ==
    /\ PassEnded("pass2")
    /\ Cardinality(passDone) >= 2
    /\ \E r \in passReads : \E w \in passWrites :
          /\ r.arr = "colorField" /\ w.arr = "gradient"
          /\ r.slot = w.slot /\ r.it # w.it
          /\ gradient[w.slot] # <<0, 0, 0>>
====
